---- MODULE Spec2Model ----
(***************************************************************************)
(* A model of maestrowf/datastructures/core/study.py: the StudyStep value  *)
(* record and the Study (abstract workflow DAG, setup, staging).           *)
(*                                                                         *)
(* Strings that are subject to substitution are modelled as sequences of   *)
(* tokens: a token is either literal text or a reference "$(NAME)" that a  *)
(* substitution replaces by literal text.  A path is a sequence of path    *)
(* components.                                                             *)
(***************************************************************************)
EXTENDS Integers, Sequences, FiniteSets, TLC

VARIABLES
    nodes,                \* keys of DAG.values, in insertion order
    values,               \* DAG.values: node name -> StudyStep or None
    adjacency_table,      \* DAG.adjacency_table: node name -> sequence of children
    parameters,           \* Study.parameters
    env_is_set_up,        \* Study.environment.is_set_up
    output,               \* Study.output.value, a sequence of path components
    issetup,              \* Study._issetup
    restart_limit,        \* Study._restart_limit
    submission_attempts,  \* Study._submission_attempts
    op,                   \* the operation called last
    ret,                  \* what that call returned or raised
    plan,                 \* the ExecutionGraph the last stage call built
    used_params,          \* _setup_parameterized's local used_params at its exit
    step_params,          \* _setup_parameterized's local step_params at its exit
    hist,                 \* history of the calls made so far (counters, first success)
    recv,                 \* the receiver of the last apply_parameters call
    applied               \* what that apply_parameters call returned

vars == <<nodes, values, adjacency_table, parameters, env_is_set_up, output,
          issetup, restart_limit, submission_attempts, op, ret, plan,
          used_params, step_params, hist, recv, applied>>

studyVars == <<nodes, values, adjacency_table, parameters, env_is_set_up, output,
               issetup, restart_limit, submission_attempts, op, ret, plan,
               used_params, step_params, hist>>

-----------------------------------------------------------------------------
(* Bounds of the model *)

MaxAddCalls == 3
MaxSetupCalls == 2

-----------------------------------------------------------------------------
(* Names, tokens and values *)

SOURCE == "_source"

None == [kind |-> "None"]

NoParent == "None"

Names == {"A", "B", "C"}

EnvTokens == ("$(E)" :> "e")

ParamToken == ("X" :> "$(X)") @@ ("Y" :> "$(Y)")

EmptyMap == [x \in {} |-> x]

\* The token sequence "" (also the falsy depends default of StudyStep.__init__)
Empty == << >>

-----------------------------------------------------------------------------
(* StudyStep *)

StudyStep_init ==
    [kind |-> "StudyStep", name |-> "", description |-> Empty,
     run |-> [cmd |-> Empty, depends |-> Empty, pre |-> Empty, post |-> Empty,
              restart |-> Empty, nodes |-> Empty, procs |-> Empty,
              walltime |-> Empty]]

RunKeys == {"cmd", "depends", "pre", "post", "restart", "nodes", "procs", "walltime"}

\* One token through a substitution map (token -> literal text)
SubstToken(tok, map) == IF tok \in DOMAIN map THEN map[tok] ELSE tok

\* A string (token sequence) or a list of strings through a substitution
SubstString(s, map) == [i \in DOMAIN s |-> SubstToken(s[i], map)]

\* utils.apply_function over a StudyStep's __dict__: every field, and every
\* entry of the run dictionary, is passed through the substitution.
apply_function(dict, map) ==
    [kind |-> dict.kind,
     name |-> SubstToken(dict.name, map),
     description |-> SubstString(dict.description, map),
     run |-> [k \in RunKeys |-> SubstString(dict.run[k], map)]]

\* Combination.apply as a substitution map: the token of each parameter the
\* combination assigns goes to the assigned value.
ComboMap(combo) ==
    [t \in {ParamToken[p] : p \in DOMAIN combo} |->
        combo[CHOOSE p \in DOMAIN combo : ParamToken[p] = t]]

StudyStep_eq_name_only(self, other) == self.name = other.name

\* StudyStep.__eq__: both are StudyStep instances and their __dict__ are equal
StudyStep_eq(self, other) ==
    /\ other.kind = self.kind
    /\ self.name = other.name
    /\ self.description = other.description
    /\ \A k \in RunKeys : self.run[k] = other.run[k]

StudyStep_ne(self, other) == ~StudyStep_eq(self, other)

\* StudyStep.apply_parameters: the receiver after the call, and the pair returned
apply_parameters(self, combo) ==
    LET tmp == apply_function(self, ComboMap(combo))
    IN  [self |-> self, changed |-> StudyStep_ne(self, tmp), tmp |-> tmp]

-----------------------------------------------------------------------------
(* DAG: the abstract graph container the Study derives from *)

RECURSIVE ReachSet(_, _)
\* The nodes reachable from the set S along edges of adj (S included)
ReachSet(adj, S) ==
    LET T == S \cup {adj[n][i] : <<n, i>> \in
                        UNION {{<<m, j>> : j \in DOMAIN adj[m]} : m \in S}}
    IN  IF T = S THEN S ELSE ReachSet(adj, T)

\* DAG.add_node(name, value), for a name the graph does not hold yet
add_node(g, name, obj) ==
    [nodes |-> Append(g.nodes, name),
     values |-> g.values @@ (name :> obj),
     adj |-> g.adj @@ (name :> << >>)]

\* DAG.add_edge(src, dst): fails if either endpoint is unknown or if the edge
\* would create a cycle; the graph is then left as it was.
add_edge(g, src, dst) ==
    IF src \notin DOMAIN g.values \/ dst \notin DOMAIN g.values
    THEN [g |-> g, err |-> "unknown node"]
    ELSE IF src \in ReachSet(g.adj, {dst})
    THEN [g |-> g, err |-> "cycle"]
    ELSE IF \E i \in DOMAIN g.adj[src] : g.adj[src][i] = dst
    THEN [g |-> g, err |-> ""]
    ELSE [g |-> [g EXCEPT !.adj[src] = Append(@, dst)], err |-> ""]

RECURSIVE dfs_subtree_helper(_, _, _, _)
RECURSIVE dfs_children(_, _, _, _)
\* Visit root (not visited yet) with parent par, then its children in order
dfs_subtree_helper(adj, root, par, acc) ==
    dfs_children(adj, root, 1,
                 [path |-> Append(acc.path, root),
                  parents |-> acc.parents @@ (root :> par)])

dfs_children(adj, root, i, acc) ==
    IF i > Len(adj[root]) THEN acc
    ELSE IF adj[root][i] \in DOMAIN acc.parents
    THEN dfs_children(adj, root, i + 1, acc)
    ELSE dfs_children(adj, root, i + 1,
                      dfs_subtree_helper(adj, adj[root][i], root, acc))

\* DAG.dfs_subtree(src): the depth-first preorder path and each node's tree parent
dfs_subtree(adj, src) ==
    dfs_subtree_helper(adj, src, NoParent, [path |-> << >>, parents |-> EmptyMap])

-----------------------------------------------------------------------------
(* Study: the graph of step templates *)

\* The loop of add_step over step.run["depends"]: the first edge that fails
\* raises, and the edges added before it stay.
RECURSIVE add_dependency_edges(_, _, _, _)
add_dependency_edges(g, depends, i, name) ==
    IF i > Len(depends) THEN [g |-> g, err |-> ""]
    ELSE LET r == add_edge(g, depends[i], name)
         IN  IF r.err # "" THEN r
             ELSE add_dependency_edges(r.g, depends, i + 1, name)

\* Study.add_step(step)
add_step(g, step) ==
    LET g1 == add_node(g, step.name, step)
    IN  IF step.run.depends # Empty
        THEN add_dependency_edges(g1, step.run.depends, 1, step.name)
        ELSE add_edge(g1, SOURCE, step.name)

\* Study.walk_study(): the sequence of (parent, node name, node value) triples
walk_study(g) ==
    LET t == dfs_subtree(g.adj, SOURCE)
    IN  [i \in DOMAIN t.path |->
            <<t.parents[t.path[i]], t.path[i], g.values[t.path[i]]>>]

\* The graph part of the Study's state
Graph == [nodes |-> nodes, values |-> values, adj |-> adjacency_table]

-----------------------------------------------------------------------------
(* Study: setup *)

\* The name of the Study, character by character
StudyName == <<"m", "y", " ", "s">>

\* The construction-time value of OUTPUT_PATH (an absolute path)
OutputRoot == <<"/out">>

\* self.name.replace(" ", "_")
replace_spaces(name) == [i \in DOMAIN name |-> IF name[i] = " " THEN "_" ELSE name[i]]

\* "{}_{}".format(self.name.replace(" ", "_"), time.strftime(...))
out_name == replace_spaces(StudyName) \o <<"_", "timestamp">>

\* os.path.join(self.output.value, out_name)
path_join(path, component) == Append(path, component)

never_set_up(flag) == FALSE

\* The test "if self._issetup" that opens setup
already_set_up(flag) == flag

\* StudyEnvironment.apply_environment as a substitution map
apply_environment == EnvTokens

\* The loop of setup over self.values.items(): every node that holds a value
\* has its fields passed through the environment's substitution.
apply_environment_to_values(vals) ==
    [n \in DOMAIN vals |->
        IF vals[n] # None THEN apply_function(vals[n], apply_environment)
        ELSE vals[n]]

-----------------------------------------------------------------------------
(* Study: staging *)

\* ExecutionGraph(): an empty concrete graph
ExecutionGraph == [values |-> EmptyMap, edges |-> {}]

\* What a call that returns no plan leaves in the variable plan
NoPlan == [workspace |-> << >>, dag |-> ExecutionGraph]

\* ExecutionGraph.add_node(name, value), for a name the graph does not hold yet
dag_add_node(dag, name, obj) ==
    [dag EXCEPT !.values = @ @@ (name :> obj)]

\* ExecutionGraph.add_step(name, step, workspace, restart_limit)
dag_add_step(dag, name, step, workspace, rlimit) ==
    dag_add_node(dag, name,
                 [kind |-> "ExecutionNode", name |-> name, step |-> step,
                  workspace |-> workspace, restart_limit |-> rlimit])

\* ExecutionGraph.add_edge(parent, child)
dag_add_edge(dag, parent, child) ==
    [dag EXCEPT !.edges = @ \cup {<<parent, child>>}]

rlimit_always(node, limit) == limit

\* The restart limit _setup_linear gives a step
rlimit_of(node, limit) == IF node.run.restart # Empty THEN limit ELSE 0

RECURSIVE setup_linear_loop(_, _, _, _, _)
\* The loop of _setup_linear over walk_study(), from its i-th triple on
setup_linear_loop(walk, i, dag, out, limit) ==
    IF i > Len(walk) THEN dag
    ELSE LET parent == walk[i][1]
             step == walk[i][2]
             node == walk[i][3]
         IN  IF step = SOURCE
             THEN setup_linear_loop(walk, i + 1, dag_add_node(dag, SOURCE, None),
                                    out, limit)
             ELSE setup_linear_loop(walk, i + 1,
                    dag_add_edge(dag_add_step(dag, step, node, out,
                                              rlimit_of(node, limit)),
                                 parent, step),
                    out, limit)

\* Study._setup_linear()
setup_linear(g, out, limit) ==
    [raised |-> "",
     workspace |-> out,
     dag |-> setup_linear_loop(walk_study(g), 1, ExecutionGraph, out, limit),
     used_params |-> EmptyMap,
     step_params |-> EmptyMap]

RECURSIVE setup_parameterized_loop(_, _, _)
\* The first loop of _setup_parameterized over walk_study(), from its i-th
\* triple on.  SOURCE is skipped.  For any other triple the arguments of the
\* logger.info call that opens the body are evaluated first, and step, the
\* node's name (a str), has no attribute "name": AttributeError is raised
\* before step_params or used_params is assigned.
setup_parameterized_loop(walk, i, st) ==
    IF i > Len(walk) THEN st
    ELSE IF walk[i][2] = SOURCE
    THEN setup_parameterized_loop(walk, i + 1, st)
    ELSE [st EXCEPT !.raised = "AttributeError"]

\* Study._setup_parameterized(): the second loop (over the combinations) has
\* an empty body, and the ExecutionGraph is returned as it was constructed.
setup_parameterized(g, out) ==
    setup_parameterized_loop(walk_study(g), 1,
        [raised |-> "",
         workspace |-> out,
         dag |-> ExecutionGraph,
         used_params |-> EmptyMap,
         step_params |-> EmptyMap])

stage_unguarded(flag) == FALSE

\* The test "if not self._issetup" that opens stage
not_set_up(flag) == ~flag

\* The test "if self.parameters" of stage
has_parameters(params) == ~params.is_none

-----------------------------------------------------------------------------
(* The inputs the operations are called with *)

\* The steps add_step is called with: three step templates, each with any
\* of the dependency lists ("Z" names no step)
DependsChoices == {Empty, <<"B">>, <<"A", "B">>, <<"Z">>}

StepBody(n) ==
    CASE n = "A" -> [StudyStep_init EXCEPT !.name = n,
                        !.description = <<"first">>,
                        !.run.cmd = <<"run", "$(X)">>]
      [] n = "B" -> [StudyStep_init EXCEPT !.name = n,
                        !.run.cmd = <<"$(E)", "$(Y)", "$(A.workspace)">>,
                        !.run.restart = <<"$(E)", "again">>]
      [] OTHER   -> [StudyStep_init EXCEPT !.name = n,
                        !.run.cmd = <<"post">>,
                        !.run.restart = <<"again">>,
                        !.run.walltime = <<"00:10">>]

MkStep(n, d) == [StepBody(n) EXCEPT !.run.depends = d]

StepInputs == {MkStep(n, d) : n \in Names, d \in DependsChoices}

\* The budgets setup is called with
RestartLimits == {1, 2}

SubmissionAttempts == {3}

\* Study.parameters: None, or a ParameterGenerator of two parameters
NoParameters == [is_none |-> TRUE, values |-> EmptyMap]

SomeParameters ==
    [is_none |-> FALSE, values |-> ("X" :> {"1", "2"}) @@ ("Y" :> {"a", "b"})]

\* The full combinations a ParameterGenerator yields
Combinations(params) ==
    {c \in [DOMAIN params.values -> UNION {params.values[p] : p \in DOMAIN params.values}] :
        \A p \in DOMAIN c : c[p] \in params.values[p]}

NoApplied == [called |-> FALSE, before |-> None, changed |-> FALSE, tmp |-> None]

-----------------------------------------------------------------------------
(* The Study after construction *)

InitStudy ==
    /\ nodes = <<SOURCE>>
    /\ values = (SOURCE :> None)
    /\ adjacency_table = (SOURCE :> << >>)
    /\ output = <<OutputRoot>>
    /\ issetup = FALSE
    /\ restart_limit = 0
    /\ submission_attempts = 0
    /\ op = "init"
    /\ ret = ""
    /\ plan = NoPlan
    /\ used_params = EmptyMap
    /\ step_params = EmptyMap
    /\ hist = [addCalls |-> 0, setupCalls |-> 0, dirCreateCalls |-> 0,
               envAcquireCalls |-> 0, noopSetups |-> 0,
               setupOk |-> FALSE, okLimit |-> 0]

Init ==
    /\ InitStudy
    /\ parameters \in {NoParameters, SomeParameters}
    /\ env_is_set_up \in BOOLEAN
    /\ recv = None
    /\ applied = NoApplied

-----------------------------------------------------------------------------
(* Operations of the Study *)

\* add_step(step), for a step whose name is new to the Study (step names
\* are unique within a Study)
AddStep ==
    \E step \in StepInputs :
        LET r == add_step(Graph, step)
        IN  /\ hist.addCalls < MaxAddCalls
            /\ step.name \notin DOMAIN values
            /\ nodes' = r.g.nodes
            /\ values' = r.g.values
            /\ adjacency_table' = r.g.adj
            /\ op' = "add_step"
            /\ ret' = r.err
            /\ plan' = NoPlan
            /\ used_params' = EmptyMap
            /\ step_params' = EmptyMap
            /\ hist' = [hist EXCEPT !.addCalls = @ + 1]
            /\ UNCHANGED <<parameters, env_is_set_up, output, issetup,
                           restart_limit, submission_attempts, recv, applied>>

\* setup(submission_attempts = sa, restart_limit = rl).  envOk: whether
\* acquire_environment returns (it raises otherwise); dirOk: whether
\* create_parentdir returns; hasMessage: whether the exception it raises has
\* the attribute "message" (Python 2) or not (Python 3).
SetupCall(sa, rl, envOk, dirOk, hasMessage) ==
    /\ hist.setupCalls < MaxSetupCalls
    /\ op' = "setup"
    /\ plan' = NoPlan
    /\ used_params' = EmptyMap
    /\ step_params' = EmptyMap
    /\ UNCHANGED <<nodes, adjacency_table, parameters, recv, applied>>
    /\ IF already_set_up(issetup)
       THEN /\ ret' = "True"
            /\ hist' = [hist EXCEPT !.setupCalls = @ + 1, !.noopSetups = @ + 1,
                                    !.setupOk = TRUE]
            /\ UNCHANGED <<values, env_is_set_up, output, issetup,
                           restart_limit, submission_attempts>>
       ELSE /\ submission_attempts' = sa
            /\ restart_limit' = rl
            /\ output' = path_join(output, out_name)
            /\ IF ~env_is_set_up /\ ~envOk
               THEN \* acquire_environment raises, outside any try
                    /\ ret' = "raised by acquire_environment"
                    /\ hist' = [hist EXCEPT !.setupCalls = @ + 1,
                                            !.envAcquireCalls = @ + 1]
                    /\ UNCHANGED <<values, env_is_set_up, issetup>>
               ELSE /\ env_is_set_up' = TRUE
                    /\ IF ~dirOk
                       THEN /\ ret' = IF hasMessage THEN "False"
                                      ELSE "raised AttributeError"
                            /\ hist' = [hist EXCEPT
                                   !.setupCalls = @ + 1,
                                   !.dirCreateCalls = @ + 1,
                                   !.envAcquireCalls =
                                       IF env_is_set_up THEN @ ELSE @ + 1]
                            /\ UNCHANGED <<values, issetup>>
                       ELSE /\ values' = apply_environment_to_values(values)
                            /\ issetup' = TRUE
                            /\ ret' = "True"
                            /\ hist' = [hist EXCEPT
                                   !.setupCalls = @ + 1,
                                   !.dirCreateCalls = @ + 1,
                                   !.envAcquireCalls =
                                       IF env_is_set_up THEN @ ELSE @ + 1,
                                   !.setupOk = TRUE,
                                   !.okLimit = rl]

Setup ==
    \E sa \in SubmissionAttempts, rl \in RestartLimits,
       envOk \in BOOLEAN, dirOk \in BOOLEAN, hasMessage \in BOOLEAN :
        SetupCall(sa, rl, envOk, dirOk, hasMessage)

\* What stage() returns or raises
stage(g, params, out, limit, flag) ==
    IF not_set_up(flag)
    THEN [raised |-> "Exception", workspace |-> << >>, dag |-> ExecutionGraph,
          used_params |-> EmptyMap, step_params |-> EmptyMap]
    ELSE IF has_parameters(params)
    THEN setup_parameterized(g, out)
    ELSE setup_linear(g, out, limit)

Stage ==
    LET r == stage(Graph, parameters, output, restart_limit, issetup)
    IN  /\ op' = "stage"
        /\ ret' = IF r.raised = "" THEN "plan" ELSE r.raised
        /\ plan' = IF r.raised = "" THEN [workspace |-> r.workspace, dag |-> r.dag]
                   ELSE NoPlan
        /\ used_params' = r.used_params
        /\ step_params' = r.step_params
        /\ UNCHANGED <<nodes, values, adjacency_table, parameters, env_is_set_up,
                       output, issetup, restart_limit, submission_attempts,
                       hist, recv, applied>>

Next == AddStep \/ Setup \/ Stage

Spec == Init /\ [][Next]_vars

-----------------------------------------------------------------------------
(* Vocabulary of the properties *)

\* The steps of the abstract graph
Steps == DOMAIN values \ {SOURCE}

\* The edges of the abstract graph
AbstractEdges ==
    {<<n, adjacency_table[n][i]>> : <<n, i>> \in
        UNION {{<<m, j>> : j \in DOMAIN adjacency_table[m]} : m \in DOMAIN adjacency_table}}

\* The nodes reachable from SOURCE
FromSource == ReachSet(adjacency_table, {SOURCE})

\* The tokens that occur in any field of a step template
TokensOf(node) ==
    {node.name}
        \cup {node.description[i] : i \in DOMAIN node.description}
        \cup UNION {{node.run[k][i] : i \in DOMAIN node.run[k]} : k \in RunKeys}

\* ParameterGenerator.get_used_parameters(node): the declared parameters the
\* template references
get_used_parameters(params, node) ==
    {p \in DOMAIN params.values : ParamToken[p] \in TokensOf(node)}

\* The used parameter set of a step: the parameters it references, with
\* those every ancestor references
UsedParameterSet(n) ==
    UNION {get_used_parameters(parameters, values[m]) :
              m \in {a \in Steps : n \in ReachSet(adjacency_table, {a})}}

\* The reduced keys of a step: the projections of the full combinations onto
\* its used parameter set
ReducedKeys(n) ==
    {[p \in UsedParameterSet(n) |-> c[p]] : c \in Combinations(parameters)}

\* The concrete nodes of the plan that instantiate step n
PlanNodesOf(n) ==
    {k \in DOMAIN plan.dag.values :
        /\ plan.dag.values[k].kind = "ExecutionNode"
        /\ plan.dag.values[k].name = n}

-----------------------------------------------------------------------------
(* C1: a stage call returns a plan only if an earlier setup call returned
   success; while no setup call has returned success, stage raises its
   error and returns no plan. *)
C1_StageOnlyAfterSetup ==
    op = "stage" =>
        /\ ret = "plan" => hist.setupOk
        /\ ~hist.setupOk => ret = "Exception" /\ plan = NoPlan

\* stage was refused after setup calls that all failed
C1_Witness ==
    /\ op = "stage"
    /\ ret = "Exception"
    /\ hist.setupCalls >= 1
    /\ ~hist.setupOk
    /\ Steps # {}

(* C2: stage on a set-up Study that has parameters returns a plan that holds,
   for every step, exactly one concrete node per distinct reduced key (one
   node for a step whose used parameter set is empty). *)
C2_OneNodePerReducedKey ==
    (op = "stage" /\ issetup /\ has_parameters(parameters)) =>
        /\ ret = "plan"
        /\ \A n \in Steps :
              Cardinality(PlanNodesOf(n)) = Cardinality(ReducedKeys(n))

(* C3: stage on a set-up Study without parameters returns a plan with one
   node per abstract step plus SOURCE, whose edges are exactly the abstract
   graph's edges.  Stated for the graphs in which every node is reachable
   from SOURCE. *)
C3_LinearPlanMirrorsGraph ==
    (/\ op = "stage"
     /\ ret = "plan"
     /\ ~has_parameters(parameters)
     /\ DOMAIN values \subseteq FromSource) =>
        /\ DOMAIN plan.dag.values = DOMAIN values
        /\ plan.dag.edges = AbstractEdges

(* C4: after parameterized staging used_params is defined for every step,
   is the step's own parameters when its parent is SOURCE, and grows along
   every dependency edge of the abstract graph. *)
C4_UsedParamsMonotone ==
    (op = "stage" /\ issetup /\ has_parameters(parameters)) =>
        /\ \A n \in Steps \cap FromSource : n \in DOMAIN used_params
        /\ \A e \in AbstractEdges :
              (e[1] # SOURCE /\ e[1] \in DOMAIN used_params
                             /\ e[2] \in DOMAIN used_params)
                  => used_params[e[1]] \subseteq used_params[e[2]]

(* C5, as stated: over any sequence of setup calls, output-directory creation
   and environment resolution each occur exactly once. *)
C5_ExactlyOnce ==
    hist.setupCalls >= 1 =>
        /\ hist.dirCreateCalls = 1
        /\ hist.envAcquireCalls = 1

(* C5, amended: a setup call made once the Study is set up returns success,
   creates no directory, resolves no environment, and changes neither the
   budgets, the output path, the set-up flag nor the step templates. *)
C5_NoOpAfterSuccess ==
    [][(issetup /\ hist'.setupCalls = hist.setupCalls + 1) =>
          /\ ret' = "True"
          /\ hist'.dirCreateCalls = hist.dirCreateCalls
          /\ hist'.envAcquireCalls = hist.envAcquireCalls
          /\ UNCHANGED <<restart_limit, submission_attempts, output, values,
                         issetup, env_is_set_up>>]_vars

\* a setup call was made after a successful one
C5_Witness ==
    /\ op = "setup"
    /\ hist.noopSetups >= 1
    /\ Steps # {}

(* C6: the graph contains SOURCE and every node of it is reachable from
   SOURCE, after construction and after any add_step calls. *)
C6_AllReachableFromSource ==
    /\ SOURCE \in DOMAIN values
    /\ DOMAIN values \subseteq FromSource

(* C7: after an add_step call that failed on an unknown dependency the graph
   has no edge with a missing endpoint and no node other than SOURCE that
   lacks an incoming edge. *)
C7_FailedAddLeavesGraphWhole ==
    (op = "add_step" /\ ret = "unknown node") =>
        /\ \A e \in AbstractEdges :
              e[1] \in DOMAIN values /\ e[2] \in DOMAIN values
        /\ \A n \in Steps : \E e \in AbstractEdges : e[2] = n

(* C8: when directory creation or environment resolution fails, setup
   returns the failure result (nothing is raised) and the Study is not set
   up.  Stated for the failures whose handling does not itself depend on the
   interpreter: the exception create_parentdir raises has a message. *)
C8_FailureIsReturned ==
    (op = "setup" /\ ret \notin {"True", "raised AttributeError"}) =>
        (ret = "False" /\ ~issetup)

(* C9: in linear staging every concrete node's restart limit is the
   restart_limit of the setup call that set the Study up when the step's
   restart command is non-empty, and zero when it is empty; the node's
   workspace root and the returned workspace are the study's output path. *)
C9_LinearRestartLimit ==
    (op = "stage" /\ ret = "plan" /\ ~has_parameters(parameters)) =>
        /\ plan.workspace = output
        /\ \A k \in DOMAIN plan.dag.values \ {SOURCE} :
              /\ plan.dag.values[k].workspace = output
              /\ plan.dag.values[k].restart_limit =
                    IF values[k].run.restart # Empty THEN hist.okLimit ELSE 0

\* a plan with a restartable node and a node without a restart command,
\* staged after a failed setup call and a successful one with limit 2
C9_Witness ==
    /\ op = "stage"
    /\ ret = "plan"
    /\ ~has_parameters(parameters)
    /\ hist.setupCalls = 2
    /\ hist.noopSetups = 0
    /\ hist.okLimit = 2
    /\ \E k \in DOMAIN plan.dag.values \ {SOURCE} :
          values[k].run.restart # Empty /\ plan.dag.values[k].restart_limit = 2
    /\ \E k \in DOMAIN plan.dag.values \ {SOURCE} :
          values[k].run.restart = Empty /\ plan.dag.values[k].restart_limit = 0

-----------------------------------------------------------------------------
(* StudyStep.apply_parameters on its own *)

StringChoices ==
    {Empty, <<"lit">>, <<"$(X)">>, <<"a", "$(Y)">>, <<"$(E)">>, <<"$(X)", "$(Y)">>}

\* The step templates apply_parameters is called on: a name, a description,
\* a command, and any one further field of the run dictionary set
ApplyTemplates ==
    {[StudyStep_init EXCEPT
         !.name = n,
         !.description = d,
         !.run = [k \in RunKeys |->
                    IF k = f THEN c ELSE IF k = "cmd" THEN c2 ELSE Empty]] :
        n \in {"step", "$(X)"}, d \in {Empty, <<"$(Y)">>},
        f \in RunKeys, c \in StringChoices, c2 \in {<<"run">>, <<"$(X)">>}}

\* The combinations it is called with: an assignment to some or all of the
\* declared parameters
ApplyCombos ==
    UNION {{c \in [D -> {"1", "2", "a", "b"}] :
               \A p \in D : c[p] \in SomeParameters.values[p]} :
           D \in SUBSET DOMAIN SomeParameters.values}

InitStep ==
    /\ InitStudy
    /\ parameters = SomeParameters
    /\ env_is_set_up = FALSE
    /\ recv \in ApplyTemplates
    /\ applied = NoApplied

ApplyParameters ==
    \E combo \in ApplyCombos :
        LET r == apply_parameters(recv, combo)
        IN  /\ recv' = r.self
            /\ applied' = [called |-> TRUE, before |-> recv,
                           changed |-> r.changed, tmp |-> r.tmp]
            /\ UNCHANGED studyVars

NextStep == ApplyParameters

SpecStep == InitStep /\ [][NextStep]_vars

(* C10: apply_parameters leaves the receiver's fields as they were, and the
   flag it returns is false exactly when the template it returns equals the
   receiver, field for field. *)
C10_ApplyParametersPure ==
    applied.called =>
        /\ recv = applied.before
        /\ (applied.changed = FALSE) <=> (applied.tmp = applied.before)

\* a combination that changed a field other than the command
C10_Witness ==
    /\ applied.called
    /\ applied.changed
    /\ recv = applied.before
    /\ applied.tmp.run.cmd = recv.run.cmd
    /\ applied.tmp.run.walltime # recv.run.walltime

(* C11: after any sequence of setup calls, failed calls and retries included,
   the output path is the construction-time output root with at most one
   generated suffix appended. *)
C11_AtMostOneSuffix ==
    \/ output = <<OutputRoot>>
    \/ output = path_join(<<OutputRoot>>, out_name)

====
